---- MODULE Spec2Model ----
(***************************************************************************)
(* A model of test/gen_traces.py: the per-file PP -> REPLAY pipeline       *)
(* (process_but_file), the runner (run_krt_timed), the goal translator     *)
(* (convert_but_to_goal, create_replay_goal), the output router            *)
(* (move_to_output_dir) and the failure classifier                         *)
(* (categorize_replay_error, create_replay_failures_dir).                  *)
(*                                                                         *)
(* Texts are abstracted to what the code reads of them: a length, the      *)
(* number of surrounding whitespace characters (removed by strip()) and    *)
(* the set of error markers they contain.  A directive is the sequence of  *)
(* its clauses, the text being the clauses joined by " & ".  Elapsed times *)
(* are left out: no branch of the code reads them.                         *)
(***************************************************************************)
EXTENDS Integers, Sequences, FiniteSets, TLC

VARIABLES
    fs,            \* the file system: path -> file, defined on the existing paths
    but_files,     \* main(): the sorted list of inputs, each <<directory, stem>>
    idx,           \* main(): position of the for loop over but_files
    pc,            \* position in process_but_file / main
    file_result,   \* process_but_file: the FileResult under construction
    stdout,        \* process_but_file: stdout captured from REPLAY
    krt_run,       \* what the krt process last run for this file did
    results,       \* main(): results.files
    failure_stats, \* create_replay_failures_dir: category -> list of records
    cleared,       \* how many times the failure archive has been cleared
    t_input,       \* translator harness: the directive text given
    t_prev,        \* translator harness: the directive text before the last conversion
    t_content,     \* translator harness: the directive text after t_count conversions
    t_count,       \* translator harness: number of conversions applied
    r_before,      \* router harness: the file system before the last call
    r_count,       \* router harness: number of calls made
    r_src,         \* router harness: the last path routed
    r_ret,         \* router harness: what move_to_output_dir returned
    c_error,       \* classifier harness: the error text
    c_size,        \* classifier harness: the trace size
    c_cat,         \* classifier harness: the category returned
    k_call,        \* runner harness: the call made and what krt does in it
    k_ret,         \* runner harness: what run_krt_timed returned
    k_count,       \* runner harness: number of calls made
    l_text,        \* result harness: the content of the result flag file
    l_label,       \* result harness: the label read from it
    l_count,       \* result harness: number of reads made
    g_pc,          \* gen_replays: position in gen_replays_and_consolidate
    g_goals,       \* gen_replays: goal_files, sorted
    g_runs,        \* gen_replays: the krt runs made so far, in order
    g_all          \* gen_replays: the sections written to all_replays.txt

pipeVars  == <<but_files, idx, pc, file_result, stdout, krt_run, results,
              failure_stats, cleared>>
transVars == <<t_input, t_prev, t_content, t_count>>
routeVars == <<r_before, r_count, r_src, r_ret>>
catVars   == <<c_error, c_size, c_cat>>
runVars   == <<k_call, k_ret, k_count>>
labelVars == <<l_text, l_label, l_count>>
genVars   == <<g_pc, g_goals, g_runs, g_all>>
vars      == <<fs, pipeVars, transVars, routeVars, catVars, runVars, labelVars, genVars>>

-----------------------------------------------------------------------------
(* Bounds of the model *)

MaxFiles == 2        \* longest batch
MaxClauses == 3      \* longest directive given to the translator harness
MaxConvert == 2      \* conversions applied in a row by the translator harness
MaxRoutes == 2       \* routing calls in a row by the router harness
MaxText == 3         \* longest result flag file given to the result harness
MaxGoals == 3        \* most goal files in the directory of gen_replays

(* Program constants *)

ErrLimit == 200          \* [:200]
StdoutThreshold == 10    \* len(stdout) > 10
TraceThreshold == 10     \* trace_size <= 10
PPTimeout == 60
ReplayTimeout == 120

\* Python's None (a record, so that it compares with texts, paths and results)
None == [none |-> TRUE]
\* None where a Path is expected (a tuple, as paths are)
NoPath == <<>>
Min(a, b) == IF a < b THEN a ELSE b

-----------------------------------------------------------------------------
(* Texts *)

Markers == {"GOALS STACK OVERFLOW", "missing atomic symbol", "Timeout"}

\* a captured stream or exception text: len characters, ws of them surrounding
\* whitespace, marks the markers found in the first ErrLimit stripped characters
Stream(src, len, ws, marks) == [src |-> src, len |-> len, ws |-> ws, marks |-> marks]
EmptyStream(src) == Stream(src, 0, 0, {})

\* s.strip()[:200]
StripTrunc(s) == [s EXCEPT !.len = Min(s.len - s.ws, ErrLimit), !.ws = 0]
\* str(e)[:200]
Trunc(s) == [s EXCEPT !.len = Min(s.len, ErrLimit)]

\* Python truthiness of an Optional[str]: None and "" are both false
Truthy(e) == e # None /\ e.len > 0

NoTraceGenerated == Stream("No trace generated", 18, 0, {})
NoReplayOutput == Stream("No replay output", 16, 0, {})
\* f"Timeout after {timeout}s", timeout a float: "Timeout after 60.0s"
TimeoutAfter(timeout) == [src |-> "Timeout after", len |-> IF timeout < 100 THEN 19 ELSE 20,
                          ws |-> 0, marks |-> {"Timeout"}, arg |-> timeout]

-----------------------------------------------------------------------------
(* Goal translator *)

Clause(k, arg) == [k |-> k, arg |-> arg]
TypeOn(a) == Clause("TypeOn", a)         \* Flag(TypeOn("a"))
FileOn(a) == Clause("FileOn", a)         \* Flag(FileOn("a"))
FileOnOdd == Clause("FileOnOdd", <<>>)   \* Flag(FileOn("")): the marker, no name
TraceOn(a) == Clause("TraceOn", a)       \* Flag(TraceOn("a"))
Str(a) == Clause("Str", a)               \* ("a")
Goal(a) == Clause("Goal", a)             \* any other clause
EmptyText == Clause("Empty", <<>>)       \* nothing at all (an empty text is <<EmptyText>>)
\* the content of a file that read_text() cannot decode
Undecodable == <<Clause("Undecodable", <<>>)>>

RECURSIVE SubTypeOn(_)
\* re.sub(r'Flag\(TypeOn\([^)]+\)\)\s*&\s*', '', s): a type clause goes with
\* the "&" after it, so one that ends the text has no match
SubTypeOn(s) ==
    IF Len(s) <= 1 THEN s
    ELSE IF Head(s).k = "TypeOn" THEN SubTypeOn(Tail(s))
         ELSE <<Head(s)>> \o SubTypeOn(Tail(s))

RECURSIVE SubFileOn(_, _)
\* re.sub(r'Flag\(FileOn\("([^"]+)"\)\)', repl, s): every match is replaced
SubFileOn(s, repl) ==
    IF s = <<>> THEN <<>>
    ELSE (IF Head(s).k = "FileOn" THEN repl ELSE <<Head(s)>>) \o SubFileOn(Tail(s), repl)

\* 'Flag(FileOn(' in content
HasFileOnMarker(s) == \E i \in 1..Len(s) : s[i].k \in {"FileOn", "FileOnOdd"}

convert_but_to_goal(but_content, trace_filename, res_filename) ==
    LET content == SubTypeOn(but_content)
        pair == <<TraceOn(trace_filename), FileOn(res_filename)>>
    IN  IF HasFileOnMarker(content)
        THEN SubFileOn(content, pair)
        ELSE pair \o content

create_replay_goal(trace_filename, replay_res_filename) ==
    <<FileOn(replay_res_filename), Str(trace_filename)>>

-----------------------------------------------------------------------------
(* Failure categories *)

\* a variant that looks for the timeout marker first
categorize_timeout_first(error, trace_size) ==
    IF ~Truthy(error)
    THEN (IF trace_size <= TraceThreshold THEN "EMPTY_TRACE" ELSE "NO_OUTPUT")
    ELSE IF "Timeout" \in error.marks THEN "TIMEOUT"
    ELSE IF "GOALS STACK OVERFLOW" \in error.marks THEN "STACK_OVERFLOW"
    ELSE IF "missing atomic symbol" \in error.marks THEN "PARSE_ERROR"
    ELSE "OTHER"

\* a variant without the timeout category
categorize_without_timeout(error, trace_size) ==
    IF ~Truthy(error)
    THEN (IF trace_size <= TraceThreshold THEN "EMPTY_TRACE" ELSE "NO_OUTPUT")
    ELSE IF "GOALS STACK OVERFLOW" \in error.marks THEN "STACK_OVERFLOW"
    ELSE IF "missing atomic symbol" \in error.marks THEN "PARSE_ERROR"
    ELSE "OTHER"

categorize_replay_error(error, trace_size) ==
    IF ~Truthy(error)
    THEN (IF trace_size <= TraceThreshold THEN "EMPTY_TRACE" ELSE "NO_OUTPUT")
    ELSE IF "GOALS STACK OVERFLOW" \in error.marks THEN "STACK_OVERFLOW"
    ELSE IF "missing atomic symbol" \in error.marks THEN "PARSE_ERROR"
    ELSE IF "Timeout" \in error.marks THEN "TIMEOUT"
    ELSE "OTHER"

-----------------------------------------------------------------------------
(* The file system.  A path is <<directory, stem, extension>>; the stores are
   directories under the output base, which is the source directory "top". *)

SourceDir == "top"
output_dirs == [trace |-> "trace", replay |-> "replay",
                replay_failures |-> "replay-failures", misc |-> "misc"]

File(data, size, by) == [data |-> data, size |-> size, by |-> by]

Exists(f, p) == p \in DOMAIN f
WriteFile(f, p, file) == [q \in DOMAIN f \cup {p} |-> IF q = p THEN file ELSE f[q]]
\* a variant that removes nothing
Unlink_keeps(f, p) == f

\* Path.unlink(missing_ok=True)
Unlink(f, p) == [q \in DOMAIN f \ {p} |-> f[q]]
\* shutil.move onto a path of the same file system: os.rename, which replaces
\* a file already at the destination
Move(f, src, dest) ==
    [q \in (DOMAIN f \ {src}) \cup {dest} |-> IF q = dest THEN f[src] ELSE f[q]]

\* Path.suffix of a name with this extension, without its dot
Suffix(ext) ==
    CASE ext = "replay.goal" -> "goal"
      [] ext = "replay.res" -> "res"
      [] OTHER -> ext

\* str.lower()
Lower(suffix) ==
    CASE suffix = "TRACE" -> "trace"
      [] suffix = "REPLAY" -> "replay"
      [] OTHER -> suffix

\* a variant that leaves files without extension where they are
DestDir_no_misc(suffix) ==
    CASE suffix = "trace" -> "trace"
      [] suffix = "replay" -> "replay"
      [] OTHER -> "(in place)"

\* move_to_output_dir: the directory chosen for a suffix; InPlace is the
\* else branch, which returns src
InPlace == "(in place)"
DestDir(suffix) ==
    CASE suffix = "trace" -> output_dirs.trace
      [] suffix = "replay" -> output_dirs.replay
      [] suffix = "" -> output_dirs.misc
      [] OTHER -> InPlace

\* move_to_output_dir(src, output_dirs): the value returned and the file
\* system it leaves
move_to_output_dir(f, src) ==
    IF ~Exists(f, src) THEN [ret |-> NoPath, fs |-> f]
    ELSE LET dest_dir == DestDir(Lower(Suffix(src[3])))
         IN  IF dest_dir = InPlace THEN [ret |-> src, fs |-> f]
             ELSE LET dest == <<dest_dir, src[2], src[3]>>
                  IN  [ret |-> dest, fs |-> Move(f, src, dest)]

-----------------------------------------------------------------------------
(* Bounded process runner *)

StageResult(success, timeout, error, output_size) ==
    [success |-> success, timeout |-> timeout, error |-> error,
     output_size |-> output_size]

\* a variant that prefers stderr
ErrorMsg_stderr_first(b) ==
    IF b.err.len > 0 THEN StripTrunc(b.err)
    ELSE IF b.out.len > 0 /\ b.code # 0 THEN StripTrunc(b.out)
    ELSE None

\* error_msg of run_krt_timed for a process that ran to its end
ErrorMsg(b) ==
    IF b.out.len > 0 /\ b.code # 0 THEN StripTrunc(b.out)
    ELSE IF b.err.len > 0 THEN StripTrunc(b.err)
    ELSE None

\* a variant that hands back, on a timeout, the output read so far
run_krt_timed_partial_stdout(b, timeout, capture_stdout) ==
    CASE b.kind = "exit" ->
           <<StageResult(b.code = 0, FALSE,
                         IF b.code # 0 THEN ErrorMsg(b) ELSE None, b.out.len),
             IF capture_stdout /\ b.out.len > 0 THEN b.out ELSE None>>
      [] b.kind = "timeout" ->
           <<StageResult(FALSE, TRUE, TimeoutAfter(timeout), 0),
             IF capture_stdout THEN Stream("stdout", ErrLimit, 0, {}) ELSE None>>
      [] OTHER ->
           <<StageResult(FALSE, FALSE, Trunc(b.exc), 0), None>>

\* run_krt_timed: <<StageResult, stdout_content>> for a behaviour b of krt:
\* b.kind is "exit" (with b.code, b.out, b.err), "timeout" or "exception"
\* (with b.exc)
run_krt_timed(b, timeout, capture_stdout) ==
    CASE b.kind = "exit" ->
           <<StageResult(b.code = 0, FALSE,
                         IF b.code # 0 THEN ErrorMsg(b) ELSE None, b.out.len),
             IF capture_stdout /\ b.out.len > 0 THEN b.out ELSE None>>
      [] b.kind = "timeout" ->
           <<StageResult(FALSE, TRUE, TimeoutAfter(timeout), 0), None>>
      [] OTHER ->
           <<StageResult(FALSE, FALSE, Trunc(b.exc), 0), None>>

-----------------------------------------------------------------------------
(* What krt can do.  PP and REPLAY are opaque: a run ends with an exit code
   and two streams, or is killed at the timeout, or cannot be launched; a
   process that was launched may have written its files. *)

Text(src, len, marks) == Stream(src, len, 0, marks)

\* stdout of PP: nothing, or a text
PPOutStreams ==
    { EmptyStream("stdout"),
      Text("stdout", StdoutThreshold + 1, {"GOALS STACK OVERFLOW"}) }

\* stdout of REPLAY: nothing, a text at the threshold, a text over it
ReplayOutStreams ==
    { EmptyStream("stdout"),
      Text("stdout", StdoutThreshold, {}),
      Text("stdout", StdoutThreshold + 1, {"GOALS STACK OVERFLOW"}) }

ErrStreams ==
    { EmptyStream("stderr"),
      Text("stderr", ErrLimit + 1, {"missing atomic symbol"}) }

ExcTexts == { Text("exception", ErrLimit + 1, {}) }

Exits(outs) ==
    [kind : {"exit"}, code : {0, 1}, out : outs, err : ErrStreams, exc : {None}]
Kills ==
    [kind : {"timeout"}, code : {-1}, out : {EmptyStream("stdout")},
     err : {EmptyStream("stderr")}, exc : {None}]
LaunchFailures ==
    [kind : {"exception"}, code : {-1}, out : {EmptyStream("stdout")},
     err : {EmptyStream("stderr")}, exc : ExcTexts]

\* PP: after an exit code 0 neither stream is read for the error, so the two
\* are taken empty together or written together
PPRuns ==
    {b \in Exits(PPOutStreams) : b.code = 0 => (b.out.len = 0 <=> b.err.len = 0)}
       \cup Kills \cup LaunchFailures
ReplayRuns == Exits(ReplayOutStreams) \cup Kills \cup LaunchFailures

NoWrite == -1
TraceSizes == {0, TraceThreshold, TraceThreshold + 1}

\* the files a PP run may leave: a trace of some size, and the result flag
\* file together with a file named as the input without extension.  A run
\* that ends well may leave any trace; one that fails or is killed leaves
\* none or a partial one; one that was never launched leaves nothing.
PPWrites(b) ==
    CASE b.kind = "exit" /\ b.code = 0 ->
           [trace : TraceSizes \cup {NoWrite}, res : BOOLEAN]
      [] b.kind = "exit" /\ b.code # 0 ->
           [trace : {NoWrite, TraceThreshold + 1}, res : BOOLEAN]
      [] b.kind = "timeout" ->
           [trace : {NoWrite, TraceThreshold + 1}, res : {FALSE}]
      [] OTHER ->
           [trace : {NoWrite}, res : {FALSE}]

PPEffect(f, directory, stem, w, by) ==
    LET f1 == IF w.trace # NoWrite
              THEN WriteFile(f, <<directory, stem, "trace">>, File(<<>>, w.trace, by))
              ELSE f
        f2 == IF w.res
              THEN WriteFile(f1, <<directory, stem, "res">>, File(<<"SUCCES">>, 1, by))
              ELSE f1
    IN  IF w.res THEN WriteFile(f2, <<directory, stem, "">>, File(<<>>, 1, by)) ELSE f2

\* a REPLAY that runs to its end leaves its result flag file; one that is
\* killed or was never launched does not
ReplayEffect(f, directory, stem, b, by) ==
    IF b.kind = "exit" THEN WriteFile(f, <<directory, stem, "replay.res">>, File(<<"SUCCES">>, 1, by))
    ELSE f

-----------------------------------------------------------------------------
(* process_but_file, one action per step of the pipeline *)

FileResult(filename, pp, replay, result) ==
    [filename |-> filename, pp |-> pp, replay |-> replay, result |-> result]

directory == but_files[idx][1]
stem == but_files[idx][2]
but_file == <<directory, stem, "but">>
goal_file == <<directory, stem, "goal">>
trace_file == <<directory, stem, "trace">>
res_file == <<directory, stem, "res">>
replay_goal_file == <<directory, stem, "replay.goal">>
replay_file == <<directory, stem, "replay">>
replay_res_file == <<directory, stem, "replay.res">>
\* a variant that names the trace where PP wrote it
trace_in_output_beside_input == <<directory, stem, "trace">>

trace_in_output == <<output_dirs.trace, stem, "trace">>

\* a variant that keeps one FileResult for the whole batch
Return_replaces_last(fr) ==
    /\ results' = IF results = <<>> THEN <<fr>>
                  ELSE [results EXCEPT ![Len(results)] = fr]
    /\ file_result' = None
    /\ stdout' = None
    /\ krt_run' = None
    /\ idx' = IF idx < Len(but_files) THEN idx + 1 ELSE 1
    /\ pc' = IF idx < Len(but_files) THEN "start" ELSE "classify"
    /\ UNCHANGED <<but_files, failure_stats, cleared>>

\* return file_result; main: results.files.append(file_result), next file
Return(fr) ==
    /\ results' = Append(results, fr)
    /\ file_result' = None
    /\ stdout' = None
    /\ krt_run' = None
    /\ idx' = IF idx < Len(but_files) THEN idx + 1 ELSE 1
    /\ pc' = IF idx < Len(but_files) THEN "start" ELSE "classify"
    /\ UNCHANGED <<but_files, failure_stats, cleared>>

Step(next) ==
    /\ pc' = next
    /\ UNCHANGED <<but_files, idx, stdout, results, failure_stats, cleared>>

Keep == UNCHANGED krt_run

\* but_file.read_text() returns the text of a file it can decode
Readable(file) == file.data # Undecodable

\* Step 1: read the .but file, write the .goal file
Translate ==
    /\ pc = "start"
    /\ Readable(fs[but_file])
    /\ LET but_content == fs[but_file].data
           goal_content == convert_but_to_goal(but_content, <<stem, "trace">>, <<stem, "res">>)
       IN  fs' = WriteFile(fs, goal_file, File(goal_content, Len(goal_content), idx))
    /\ file_result' = FileResult(<<stem, "but">>, None, None, <<"UNKNOWN">>)
    /\ Step("goal1_written")
    /\ Keep
    /\ UNCHANGED <<transVars, routeVars, catVars, runVars, labelVars, genVars>>

\* but_file.read_text() raises: nothing in process_but_file or in the loop of
\* main catches it, and the script ends there
ReadFails ==
    /\ pc = "start"
    /\ ~Readable(fs[but_file])
    /\ pc' = "aborted"
    /\ UNCHANGED <<fs, but_files, idx, file_result, stdout, krt_run, results,
                   failure_stats, cleared>>
    /\ UNCHANGED <<transVars, routeVars, catVars, runVars, labelVars, genVars>>

\* Step 2: run PP
RunPP ==
    /\ pc = "goal1_written"
    /\ \E b \in PPRuns : \E w \in PPWrites(b) :
          /\ fs' = PPEffect(fs, directory, stem, w, idx)
          /\ file_result' = [file_result EXCEPT !.pp = run_krt_timed(b, PPTimeout, FALSE)[1]]
          /\ krt_run' = b
    /\ Step("stage1_run")
    /\ UNCHANGED <<transVars, routeVars, catVars, runVars, labelVars, genVars>>

\* a variant without the size check
TraceGenerated_exists_only(f, p) == Exists(f, p)

\* not trace_file.exists() or trace_file.stat().st_size == 0, negated
TraceGenerated(f, p) == Exists(f, p) /\ f[p].size # 0

\* a variant that never sets the default
OrDefault_never(error, default) == error

\* the default error is set only over a falsy one
OrDefault(error, default) == IF ~Truthy(error) THEN default ELSE error

\* a text as the sequence of its characters: "BOM" is U+FEFF, "SP" and "NL"
\* are whitespace, anything else is a character of a token
Whitespace == {"SP", "NL"}

RECURSIVE LStrip(_)
LStrip(s) == IF s # <<>> /\ Head(s) \in Whitespace THEN LStrip(Tail(s)) ELSE s

RECURSIVE RStrip(_)
RStrip(s) ==
    IF s # <<>> /\ s[Len(s)] \in Whitespace THEN RStrip(SubSeq(s, 1, Len(s) - 1)) ELSE s

\* str.strip(): U+FEFF is not whitespace for it
Strip(s) == RStrip(LStrip(s))

\* str.replace(BOM, ''): every occurrence goes
ReplaceBOM(s) == SelectSeq(s, LAMBDA c : c # "BOM")

\* res_file.read_text().strip().replace(BOM, '')
ReadResult(file) == ReplaceBOM(Strip(file.data))

\* the checks after PP, up to the removal of the .goal file
ValidatePP ==
    /\ pc = "stage1_run"
    /\ LET pp0 == file_result.pp
           pp1 == IF ~TraceGenerated(fs, trace_file)
                  THEN [pp0 EXCEPT !.success = FALSE,
                                   !.error = OrDefault(pp0.error, NoTraceGenerated)]
                  ELSE pp0
           pp2 == IF Exists(fs, trace_file)
                  THEN [pp1 EXCEPT !.output_size = fs[trace_file].size]
                  ELSE pp1
           result == IF Exists(fs, res_file) THEN ReadResult(fs[res_file])
                     ELSE file_result.result
       IN  file_result' = [file_result EXCEPT !.pp = pp2, !.result = result]
    /\ fs' = Unlink(fs, goal_file)
    /\ Step("stage1_validated")
    /\ Keep
    /\ UNCHANGED <<transVars, routeVars, catVars, runVars, labelVars, genVars>>

\* a variant that stops on a timeout only
PPFailed_timeout_only(fr) == fr.pp.timeout

\* if not pp_result.success
PPFailed(fr) == ~fr.pp.success

\* PP failed: drop the trace and return
StopOnFail ==
    /\ pc = "stage1_validated"
    /\ PPFailed(file_result)
    /\ fs' = Unlink(fs, trace_file)
    /\ Return(file_result)
    /\ UNCHANGED <<transVars, routeVars, catVars, runVars, labelVars, genVars>>

\* PP succeeded: move the trace to the trace store
RouteTrace ==
    /\ pc = "stage1_validated"
    /\ ~PPFailed(file_result)
    /\ fs' = move_to_output_dir(fs, trace_file).fs
    /\ Step("trace_routed")
    /\ Keep
    /\ UNCHANGED <<file_result, transVars, routeVars, catVars, runVars, labelVars, genVars>>

\* Step 3: write the replay goal, which names the trace in the store
WriteReplayGoal ==
    /\ pc = "trace_routed"
    /\ LET replay_goal_content == create_replay_goal(trace_in_output, <<stem, "replay.res">>)
       IN  fs' = WriteFile(fs, replay_goal_file,
                           File(replay_goal_content, Len(replay_goal_content), idx))
    /\ Step("goal2_written")
    /\ Keep
    /\ UNCHANGED <<file_result, transVars, routeVars, catVars, runVars, labelVars, genVars>>

\* Step 4: run REPLAY, keeping its stdout
RunReplay ==
    /\ pc = "goal2_written"
    /\ \E b \in ReplayRuns :
          /\ fs' = ReplayEffect(fs, directory, stem, b, idx)
          /\ LET r == run_krt_timed(b, ReplayTimeout, TRUE)
             IN  /\ file_result' = [file_result EXCEPT !.replay = r[1]]
                 /\ stdout' = r[2]
          /\ krt_run' = b
    /\ pc' = "stage2_run"
    /\ UNCHANGED <<but_files, idx, results, failure_stats, cleared>>
    /\ UNCHANGED <<transVars, routeVars, catVars, runVars, labelVars, genVars>>

\* a variant with >= for >
ReplayProduced_at_threshold(out) == Truthy(out) /\ out.len >= StdoutThreshold

\* stdout and len(stdout) > 10
ReplayProduced(out) == Truthy(out) /\ out.len > StdoutThreshold

\* the check of the replay output, with the routing of the .replay file
ValidateReplay ==
    /\ pc = "stage2_run"
    /\ LET replay0 == file_result.replay
       IN  IF ReplayProduced(stdout)
           THEN /\ file_result' = [file_result EXCEPT !.replay =
                        [replay0 EXCEPT !.output_size = stdout.len, !.success = TRUE]]
                /\ fs' = move_to_output_dir(
                            WriteFile(fs, replay_file, File(<<>>, stdout.len, idx)),
                            replay_file).fs
           ELSE /\ file_result' = [file_result EXCEPT !.replay =
                        [replay0 EXCEPT !.success = FALSE,
                                        !.error = OrDefault(replay0.error, NoReplayOutput)]]
                /\ fs' = fs
    /\ Step("stage2_validated")
    /\ Keep
    /\ UNCHANGED <<transVars, routeVars, catVars, runVars, labelVars, genVars>>

\* the removal of the intermediate files and the sweep of the file without
\* extension, then return
Cleanup ==
    /\ pc = "stage2_validated"
    /\ LET f1 == Unlink(Unlink(Unlink(fs, replay_goal_file), replay_res_file), replay_file)
       IN  fs' = move_to_output_dir(f1, <<directory, stem, "">>).fs
    /\ Return(file_result)
    /\ UNCHANGED <<transVars, routeVars, catVars, runVars, labelVars, genVars>>

-----------------------------------------------------------------------------
(* create_replay_failures_dir, called by main once the loop over the inputs
   has ended: the archive is cleared, then each result is looked at in turn *)

InArchive(p) == p[1] = output_dirs.replay_failures

\* a variant that leaves the archive as it is
Cleared_nothing(f) == f

\* for f in output_dirs.replay_failures.iterdir(): f.unlink()
Cleared(f) == [q \in {p \in DOMAIN f : ~InArchive(p)} |-> f[q]]

ClearArchive ==
    /\ pc = "classify"
    /\ fs' = Cleared(fs)
    /\ cleared' = cleared + 1
    /\ failure_stats' = <<>>
    /\ idx' = 1
    /\ pc' = "archive"
    /\ UNCHANGED <<but_files, file_result, stdout, krt_run, results>>
    /\ UNCHANGED <<transVars, routeVars, catVars, runVars, labelVars, genVars>>

\* a variant that does not look at PP
ReplayFailure_any_pp(fr) == ~(fr.replay # None /\ fr.replay.success)

\* PP succeeded and REPLAY did not
ReplayFailure(fr) ==
    /\ fr.pp # None /\ fr.pp.success
    /\ ~(fr.replay # None /\ fr.replay.success)

\* a variant that moves the file
Copy_moves(f, src, dest) == Move(f, src, dest)

\* shutil.copy(src, dest)
Copy(f, src, dest) == WriteFile(f, dest, f[src])

\* a variant that puts the record in front
AppendStat_in_front(stats, category, record) ==
    [c \in DOMAIN stats \cup {category} |->
        IF c = category
        THEN (IF c \in DOMAIN stats THEN <<record>> \o stats[c] ELSE <<record>>)
        ELSE stats[c]]

\* failure_stats[category].append(record), failure_stats a defaultdict(list)
AppendStat(stats, category, record) ==
    [c \in DOMAIN stats \cup {category} |->
        IF c = category
        THEN (IF c \in DOMAIN stats THEN Append(stats[c], record) ELSE <<record>>)
        ELSE stats[c]]

\* one iteration of "for file_result in results.files"
ArchiveOne ==
    /\ pc = "archive"
    /\ idx <= Len(results)
    /\ LET fr == results[idx]
           name == fr.filename[1]
           trace_path == <<output_dirs.trace, name, "trace">>
           but_path == <<SourceDir, name, "but">>
           error == IF fr.replay # None THEN fr.replay.error ELSE None
       IN  IF ReplayFailure(fr) /\ Exists(fs, trace_path)
           THEN LET trace_size == fs[trace_path].size
                    category == categorize_replay_error(error, trace_size)
                    f1 == IF Exists(fs, but_path)
                          THEN Copy(fs, but_path, <<output_dirs.replay_failures, name, "but">>)
                          ELSE fs
                    f2 == Copy(f1, trace_path, <<output_dirs.replay_failures, name, "trace">>)
                    replay_goal_content ==
                        <<FileOn(<<name, "replay.res">>), Str(<<name, "trace">>)>>
                IN  /\ failure_stats' = AppendStat(failure_stats, category,
                            [name |-> name, trace_size |-> trace_size, error |-> error])
                    /\ fs' = WriteFile(f2, <<output_dirs.replay_failures, name, "replay.goal">>,
                                       File(replay_goal_content, Len(replay_goal_content), idx))
           ELSE UNCHANGED <<fs, failure_stats>>
    /\ idx' = idx + 1
    /\ UNCHANGED <<but_files, pc, file_result, stdout, krt_run, results, cleared>>
    /\ UNCHANGED <<transVars, routeVars, catVars, runVars, labelVars, genVars>>

\* return dict(failure_stats)
ArchiveDone ==
    /\ pc = "archive"
    /\ idx > Len(results)
    /\ pc' = "done"
    /\ UNCHANGED <<fs, but_files, idx, file_result, stdout, krt_run, results,
                   failure_stats, cleared>>
    /\ UNCHANGED <<transVars, routeVars, catVars, runVars, labelVars, genVars>>

-----------------------------------------------------------------------------
(* A batch run of main() *)

Range(s) == {s[i] : i \in 1..Len(s)}

\* sorted(directory.glob("**/*.but")) over the inputs the model knows
Inputs == << <<"top", "a">>, <<"top", "b">>, <<"sub", "a">> >>

Batches ==
    { SelectSeq(Inputs, LAMBDA x : x \in S) :
        S \in {T \in SUBSET Range(Inputs) : Cardinality(T) \in 1..MaxFiles} }

\* a .but file as its docstring has it:
\* Flag(TypeOn("...")) & Flag(FileOn("...res")) & Set(...)
\* the goal differs from one input to the other
ButContent(dir, name) == <<TypeOn(<<"x">>), FileOn(<<name, "res">>), Goal(<<dir, name>>)>>

ButFile(dir, name) == File(ButContent(dir, name), Len(ButContent(dir, name)), 0)
\* an input that is not text in the encoding read_text() expects
UndecodableFile == File(Undecodable, 1, 0)

\* what an earlier run has left in the failure archive
StaleArchive == <<output_dirs.replay_failures, "a", "trace">>
StaleFile == File(<<>>, 0, 0)
\* the result flag file an earlier run of b.but has left beside it
StaleRes == <<SourceDir, "b", "res">>
StaleResFile == File(<<"OLD">>, 1, 0)

IdlePipe ==
    /\ but_files = <<>>
    /\ idx = 1
    /\ pc = "idle"
    /\ file_result = None
    /\ stdout = None
    /\ krt_run = None
    /\ results = <<>>
    /\ failure_stats = <<>>
    /\ cleared = 0

IdleTranslate == t_input = <<>> /\ t_prev = <<>> /\ t_content = <<>> /\ t_count = 0
IdleRoute == r_before = <<>> /\ r_count = 0 /\ r_src = NoPath /\ r_ret = NoPath
IdleCategorize == c_error = None /\ c_size = 0 /\ c_cat = ""
IdleRun == k_call = None /\ k_ret = <<>> /\ k_count = 0
IdleLabel == l_text = <<>> /\ l_label = <<>> /\ l_count = 0
IdleGen == g_pc = "idle" /\ g_goals = <<>> /\ g_runs = <<>> /\ g_all = <<>>

Init ==
    /\ but_files \in Batches
    /\ \E U \in SUBSET Range(but_files) :
          LET inputs == {<<i[1], i[2], "but">> : i \in Range(but_files)}
              left == {StaleArchive} \cup
                      (IF <<SourceDir, "b">> \in Range(but_files) THEN {StaleRes} ELSE {})
          IN  fs = [p \in inputs \cup left |->
                       IF p = StaleArchive THEN StaleFile
                       ELSE IF p = StaleRes THEN StaleResFile
                       ELSE IF <<p[1], p[2]>> \in U THEN UndecodableFile
                       ELSE ButFile(p[1], p[2])]
    /\ idx = 1
    /\ pc = "start"
    /\ file_result = None
    /\ stdout = None
    /\ krt_run = None
    /\ results = <<>>
    /\ failure_stats = <<>>
    /\ cleared = 0
    /\ IdleTranslate /\ IdleRoute /\ IdleCategorize /\ IdleRun /\ IdleLabel /\ IdleGen

Next ==
    \/ Translate
    \/ ReadFails
    \/ RunPP
    \/ ValidatePP
    \/ StopOnFail
    \/ RouteTrace
    \/ WriteReplayGoal
    \/ RunReplay
    \/ ValidateReplay
    \/ Cleanup
    \/ ClearArchive
    \/ ArchiveOne
    \/ ArchiveDone

Spec == Init /\ [][Next]_vars

-----------------------------------------------------------------------------
(* The translator alone: convert_but_to_goal applied to a directive, and
   again to what it returned *)

ClauseAlphabet ==
    { TypeOn(<<"x">>), FileOn(<<"g1", "res">>), FileOn(<<"old", "res">>), FileOnOdd,
      Goal(<<"P">>), EmptyText }

Directives == UNION { [1..n -> ClauseAlphabet] : n \in 1..MaxClauses }

InitTranslate ==
    /\ fs = <<>>
    /\ IdlePipe /\ IdleRoute /\ IdleCategorize /\ IdleRun /\ IdleLabel /\ IdleGen
    /\ t_input \in Directives
    /\ t_prev = t_input
    /\ t_content = t_input
    /\ t_count = 0

Convert ==
    /\ t_count < MaxConvert
    /\ t_content' = convert_but_to_goal(t_content, <<"g1", "trace">>, <<"g1", "res">>)
    /\ t_prev' = t_content
    /\ t_count' = t_count + 1
    /\ UNCHANGED <<fs, pipeVars, t_input, routeVars, catVars, runVars, labelVars, genVars>>

NextTranslate == Convert

SpecTranslate == InitTranslate /\ [][NextTranslate]_vars

-----------------------------------------------------------------------------
(* The router alone: move_to_output_dir called on paths of a directory that
   holds some of a.trace, b.replay, c, d.res, e.TRACE, the trace store holding
   an a.trace already or not *)

RouteCandidates ==
    { <<"top", "a", "trace">>, <<"top", "b", "replay">>, <<"top", "c", "">>,
      <<"top", "d", "res">>, <<"top", "e", "TRACE">> }

InitRoute ==
    /\ \E S \in SUBSET RouteCandidates, old \in BOOLEAN :
          fs = [p \in S \cup (IF old THEN {<<output_dirs.trace, "a", "trace">>} ELSE {}) |->
                   IF p \in S THEN File(<<>>, 1, 1) ELSE File(<<>>, 1, 0)]
    /\ IdlePipe /\ IdleTranslate /\ IdleCategorize /\ IdleRun /\ IdleLabel /\ IdleGen
    /\ r_before = fs
    /\ r_count = 0
    /\ r_src = NoPath
    /\ r_ret = NoPath

Route ==
    /\ r_count < MaxRoutes
    /\ \E src \in RouteCandidates :
          LET r == move_to_output_dir(fs, src)
          IN  /\ fs' = r.fs
              /\ r_ret' = r.ret
              /\ r_src' = src
    /\ r_before' = fs
    /\ r_count' = r_count + 1
    /\ UNCHANGED <<pipeVars, transVars, catVars, runVars, labelVars, genVars>>

NextRoute == Route

SpecRoute == InitRoute /\ [][NextRoute]_vars

-----------------------------------------------------------------------------
(* The classifier's decision alone: categorize_replay_error on an error text
   and a trace size *)

ErrorTexts ==
    { None, EmptyStream("error") } \cup { Text("error", 1, m) : m \in SUBSET Markers }

InitCategorize ==
    /\ fs = <<>>
    /\ IdlePipe /\ IdleTranslate /\ IdleRoute /\ IdleRun /\ IdleLabel /\ IdleGen
    /\ c_error \in ErrorTexts
    /\ c_size \in 0..(TraceThreshold + 1)
    /\ c_cat = ""

Categorize ==
    /\ c_cat = ""
    /\ c_cat' = categorize_replay_error(c_error, c_size)
    /\ UNCHANGED <<fs, pipeVars, transVars, routeVars, c_error, c_size, runVars, labelVars, genVars>>

NextCategorize == Categorize

SpecCategorize == InitCategorize /\ [][NextCategorize]_vars

-----------------------------------------------------------------------------
(* The runner alone: run_krt_timed called once, for a krt process that exits
   with some code and streams (empty, all whitespace, short, at the limit of
   200 characters once stripped, over it), is killed at the timeout, or
   cannot be launched *)

RunnerStreams(src) ==
    { EmptyStream(src), Stream(src, 1, 1, {}), Stream(src, 3, 1, {}),
      Stream(src, ErrLimit, 0, {}), Stream(src, ErrLimit + 2, 1, {}) }

RunnerExcTexts ==
    { EmptyStream("exception"), Text("exception", 3, {}),
      Text("exception", ErrLimit + 1, {}) }

RunnerBehaviours ==
    [kind : {"exit"}, code : {0, 1}, out : RunnerStreams("stdout"),
     err : RunnerStreams("stderr"), exc : {None}]
       \cup Kills
       \cup [kind : {"exception"}, code : {-1}, out : {EmptyStream("stdout")},
              err : {EmptyStream("stderr")}, exc : RunnerExcTexts]

InitRun ==
    /\ fs = <<>>
    /\ IdlePipe /\ IdleTranslate /\ IdleRoute /\ IdleCategorize /\ IdleLabel /\ IdleGen
    /\ k_call \in [b : RunnerBehaviours, timeout : {PPTimeout, ReplayTimeout},
                    capture_stdout : BOOLEAN]
    /\ k_ret = <<>>
    /\ k_count = 0

Run ==
    /\ k_count = 0
    /\ k_ret' = run_krt_timed(k_call.b, k_call.timeout, k_call.capture_stdout)
    /\ k_count' = 1
    /\ UNCHANGED <<fs, pipeVars, transVars, routeVars, catVars, k_call, labelVars, genVars>>

NextRun == Run

SpecRun == InitRun /\ [][NextRun]_vars

-----------------------------------------------------------------------------
(* The reading of the result flag file alone: ReadResult on a file of up to
   MaxText characters *)

LabelChars == {"BOM", "SP", "NL", "S"}

LabelTexts == UNION { [1..n -> LabelChars] : n \in 0..MaxText }

InitLabel ==
    /\ fs = <<>>
    /\ IdlePipe /\ IdleTranslate /\ IdleRoute /\ IdleCategorize /\ IdleRun /\ IdleGen
    /\ l_text \in LabelTexts
    /\ l_label = <<>>
    /\ l_count = 0

ReadLabel ==
    /\ l_count = 0
    /\ l_label' = ReadResult(File(l_text, Len(l_text), 0))
    /\ l_count' = 1
    /\ UNCHANGED <<fs, pipeVars, transVars, routeVars, catVars, runVars, l_text, genVars>>

NextLabel == ReadLabel

SpecLabel == InitLabel /\ [][NextLabel]_vars

-----------------------------------------------------------------------------
(* BenchmarkResults: the counts derived from results.files *)

total_files(files) == Len(files)
pp_succeeded(files) ==
    Cardinality({i \in 1..Len(files) : files[i].pp # None /\ files[i].pp.success})
pp_failed(files) ==
    Cardinality({i \in 1..Len(files) : files[i].pp # None /\ ~files[i].pp.success})
pp_timeouts(files) ==
    Cardinality({i \in 1..Len(files) : files[i].pp # None /\ files[i].pp.timeout})
replay_succeeded(files) ==
    Cardinality({i \in 1..Len(files) : files[i].replay # None /\ files[i].replay.success})
replay_failed(files) ==
    Cardinality({i \in 1..Len(files) : files[i].replay # None /\ ~files[i].replay.success})
replay_timeouts(files) ==
    Cardinality({i \in 1..Len(files) : files[i].replay # None /\ files[i].replay.timeout})

-----------------------------------------------------------------------------
(* traces/gen_replays.py, gen_replays_and_consolidate: the directory holds
   some goal files <n>.trace.goal, named here by the number n; krt is run on
   each in sorted order, its stdout going to <n>.trace.replay, and the output
   of the runs that exit with code 0 is appended to all_replays.txt *)

GoalIds == 1..MaxGoals

\* the orders in which glob.glob may list the files of a set
Listings(S) ==
    {l \in [1..Cardinality(S) -> S] : \A i, j \in 1..Cardinality(S) : i # j => l[i] # l[j]}

RECURSIVE Sorted(_)
\* list.sort()
Sorted(S) ==
    IF S = {} THEN <<>>
    ELSE LET m == CHOOSE x \in S : \A y \in S : x <= y
         IN  <<m>> \o Sorted(S \ {m})

\* goal_file.replace(".goal", ".replay")
ReplayName(goal) == <<goal, "trace", "replay">>

\* "=== {replay_file} ===", the content of the replay file, a newline
Section(run) == [header |-> ReplayName(run.goal), content |-> run.out]

\* a variant that appends the output of every run
Consolidate_every_run(all, run) == Append(all, Section(run))

\* the section is written in the else branch of "if result.returncode != 0"
Consolidate(all, run) == IF run.code # 0 THEN all ELSE Append(all, Section(run))

KrtExits == [code : {0, 1, 2}, out : {0, 1}]

InitGen ==
    /\ fs = <<>>
    /\ IdlePipe /\ IdleTranslate /\ IdleRoute /\ IdleCategorize /\ IdleRun /\ IdleLabel
    /\ g_pc = "start"
    /\ \E S \in SUBSET GoalIds : g_goals \in Listings(S)
    /\ g_runs = <<>>
    /\ g_all = <<>>

\* glob, sort, and either the return for an empty list or the opening of
\* all_replays.txt
GenStart ==
    /\ g_pc = "start"
    /\ g_goals' = Sorted(Range(g_goals))
    /\ g_pc' = IF g_goals = <<>> THEN "returned" ELSE "loop"
    /\ UNCHANGED <<fs, pipeVars, transVars, routeVars, catVars, runVars, labelVars,
                   g_runs, g_all>>

\* one iteration of the loop over goal_files in which krt runs to its end
GenRun ==
    /\ g_pc = "loop"
    /\ Len(g_runs) < Len(g_goals)
    /\ \E e \in KrtExits :
          LET run == [goal |-> g_goals[Len(g_runs) + 1], code |-> e.code, out |-> e.out]
          IN  /\ g_runs' = Append(g_runs, run)
              /\ g_all' = Consolidate(g_all, run)
    /\ UNCHANGED <<fs, pipeVars, transVars, routeVars, catVars, runVars, labelVars,
                   g_pc, g_goals>>

\* krt is not found: FileNotFoundError, sys.exit(1)
GenKrtMissing ==
    /\ g_pc = "loop"
    /\ Len(g_runs) < Len(g_goals)
    /\ g_pc' = "exit"
    /\ UNCHANGED <<fs, pipeVars, transVars, routeVars, catVars, runVars, labelVars,
                   g_goals, g_runs, g_all>>

\* the loop has ended
GenEnd ==
    /\ g_pc = "loop"
    /\ Len(g_runs) = Len(g_goals)
    /\ g_pc' = "done"
    /\ UNCHANGED <<fs, pipeVars, transVars, routeVars, catVars, runVars, labelVars,
                   g_goals, g_runs, g_all>>

NextGen == GenStart \/ GenRun \/ GenKrtMissing \/ GenEnd

SpecGen == InitGen /\ [][NextGen]_vars

-----------------------------------------------------------------------------
(* Properties *)

NonEmpty(f, p) == Exists(f, p) /\ f[p].size > 0

AfterPP == pc \in {"trace_routed", "goal2_written", "stage2_run", "stage2_validated"}

\* C1: a FileResult has a replay outcome only if its PP outcome succeeded, and
\* the steps from the routing of the trace to the end of REPLAY are taken only
\* for a file whose PP outcome succeeded.
C1_ReplayOnlyAfterPPSuccess ==
    /\ \A i \in 1..Len(results) :
          results[i].replay # None => results[i].pp # None /\ results[i].pp.success
    /\ file_result # None /\ file_result.replay # None => file_result.pp.success
    /\ AfterPP => file_result.pp.success

\* a batch where REPLAY was run for one file and not for another, whose PP failed
C1_Witness ==
    \E i, j \in 1..Len(results) :
       /\ results[i].replay # None
       /\ results[j].replay = None /\ ~results[j].pp.success

\* C2: pp.success is true only with a trace of non-zero size: beside the input
\* when PP has been validated, in the trace store from the routing on and for
\* every file whose pipeline has ended.
C2_SuccessNeedsTrace ==
    /\ \A i \in 1..Len(results) :
          results[i].pp.success =>
             NonEmpty(fs, <<output_dirs.trace, results[i].filename[1], "trace">>)
    /\ pc = "stage1_validated" /\ file_result.pp.success => NonEmpty(fs, trace_file)
    /\ AfterPP /\ file_result.pp.success => NonEmpty(fs, trace_in_output)

\* the run has ended and a file with a successful PP is among the results
C2_Witness ==
    /\ pc = "done"
    /\ \E i \in 1..Len(results) : results[i].pp.success

\* C3: once REPLAY is validated, replay.success is true exactly when the
\* process ended with a stdout of more than 10 characters, whatever its exit
\* code; that stdout is then in the replay store under the input's name;
\* otherwise success is false and the error is the one the runner recorded,
\* or "No replay output" if it recorded none.
C3_ReplaySuccessIffStdout ==
    pc = "stage2_validated" =>
       LET produced == krt_run.kind = "exit" /\ krt_run.out.len > StdoutThreshold
           recorded == run_krt_timed(krt_run, ReplayTimeout, TRUE)[1].error
           replay == file_result.replay
           dest == <<output_dirs.replay, stem, "replay">>
       IN  /\ replay.success <=> produced
           /\ produced =>
                 /\ replay.output_size = krt_run.out.len
                 /\ Exists(fs, dest)
                 /\ fs[dest].size = krt_run.out.len /\ fs[dest].by = idx
           /\ ~produced =>
                 replay.error = IF Truthy(recorded) THEN recorded ELSE NoReplayOutput

\* REPLAY exited with a non-zero code and more than 10 characters of stdout
C3_Witness ==
    /\ pc = "stage2_validated"
    /\ krt_run.kind = "exit" /\ krt_run.code # 0
    /\ krt_run.out.len > StdoutThreshold
    /\ file_result.replay.success

\* C4: once PP is validated with the trace missing or empty, pp.success is
\* false and the error is the one the runner recorded or, if it recorded none
\* (as after an exit code 0), "No trace generated"; the only step left is the
\* return without a replay outcome.
C4_NoTraceFails ==
    pc = "stage1_validated" /\ ~NonEmpty(fs, trace_file) =>
       LET recorded == run_krt_timed(krt_run, PPTimeout, FALSE)[1].error
       IN  /\ ~file_result.pp.success
           /\ file_result.pp.error =
                 IF Truthy(recorded) THEN recorded ELSE NoTraceGenerated
           /\ krt_run.kind = "exit" /\ krt_run.code = 0 =>
                 file_result.pp.error = NoTraceGenerated
           /\ file_result.replay = None
           /\ ~ENABLED RouteTrace
           /\ ENABLED StopOnFail

\* PP exited with code 0 and left a trace of size zero
C4_Witness ==
    /\ pc = "stage1_validated"
    /\ krt_run.kind = "exit" /\ krt_run.code = 0
    /\ Exists(fs, trace_file) /\ fs[trace_file].size = 0
    /\ ~file_result.pp.success

TimeoutNotSuccess(o) == o # None => (o.timeout => ~o.success)

\* C5: in every state, every stage outcome, of a result returned or of the
\* one under construction, has timeout => ~success.
C5_TimeoutImpliesNotSuccess ==
    /\ \A i \in 1..Len(results) :
          TimeoutNotSuccess(results[i].pp) /\ TimeoutNotSuccess(results[i].replay)
    /\ file_result # None =>
          TimeoutNotSuccess(file_result.pp) /\ TimeoutNotSuccess(file_result.replay)

\* REPLAY timed out and has been validated
C5_Witness ==
    /\ pc = "stage2_validated"
    /\ file_result.replay.timeout

CountK(s, k) == Cardinality({i \in 1..Len(s) : s[i].k = k})

OneOfEach(s) == CountK(s, "TraceOn") = 1 /\ CountK(s, "FileOn") = 1

\* C6: converting a directive that the conversion returned, with one trace
\* clause and one result-file clause in it, gives a directive with exactly one
\* trace clause and exactly one result-file clause.
C6_TwiceOneOfEach ==
    t_count = 2 /\ OneOfEach(t_prev) => OneOfEach(t_content)

RECURSIVE ReplaceResultClauses(_, _)
ReplaceResultClauses(s, pair) ==
    IF s = <<>> THEN <<>>
    ELSE (IF Head(s).k = "FileOn" THEN pair ELSE <<Head(s)>>)
         \o ReplaceResultClauses(Tail(s), pair)

\* C7: the directive converted once is the one given without its type
\* clauses where, if it has a result-file clause (taken here as: the marker
\* Flag(FileOn( appears), each well-formed result-file clause is replaced by
\* the trace clause and the result-file clause of the names given, and if it
\* has none that pair is put in front.
C7_ConvertShape ==
    t_count = 1 =>
       LET rest == SelectSeq(t_input, LAMBDA c : c.k # "TypeOn")
           pair == <<TraceOn(<<"g1", "trace">>), FileOn(<<"g1", "res">>)>>
       IN  t_content = IF \E i \in 1..Len(rest) : rest[i].k \in {"FileOn", "FileOnOdd"}
                       THEN ReplaceResultClauses(rest, pair)
                       ELSE pair \o rest

\* C8: after a call of move_to_output_dir on src: if src did not exist, None
\* is returned and nothing has changed; if its suffix is the trace suffix
\* (in either case of letters), the replay suffix or no suffix, the file is
\* under the same name in the trace store, the replay store or the misc
\* store, it is no longer at src, and no other path has changed; with any
\* other suffix src is returned and nothing has changed.
C8_RouteBySuffix ==
    r_count > 0 =>
       LET ext == r_src[3]
           MovedTo(d) ==
              LET dest == <<d, r_src[2], ext>>
              IN  /\ r_ret = dest
                  /\ Exists(fs, dest) /\ fs[dest] = r_before[r_src]
                  /\ ~Exists(fs, r_src)
                  /\ DOMAIN fs = (DOMAIN r_before \ {r_src}) \cup {dest}
                  /\ \A p \in DOMAIN fs \ {dest} : fs[p] = r_before[p]
       IN  IF ~Exists(r_before, r_src) THEN r_ret = NoPath /\ fs = r_before
           ELSE CASE ext \in {"trace", "TRACE"} -> MovedTo("trace")
                  [] ext = "replay" -> MovedTo("replay")
                  [] ext = "" -> MovedTo("misc")
                  [] OTHER -> r_ret = r_src /\ fs = r_before

\* a.trace has been moved to the trace store, then c to the misc store
C8_Witness ==
    /\ r_count = MaxRoutes
    /\ r_src = <<"top", "c", "">> /\ r_ret = <<"misc", "c", "">>
    /\ Exists(fs, <<"trace", "a", "trace">>) /\ ~Exists(fs, <<"top", "a", "trace">>)

Stores == {output_dirs.trace, output_dirs.replay, output_dirs.misc}

\* C9: no step replaces the content of a file that is already in the trace
\* store, the replay store or the misc store.
C9_NeverOverwrites ==
    [][\A p \in DOMAIN fs \cap DOMAIN fs' : p[1] \in Stores => fs'[p] = fs[p]]_vars

\* C10: the category is decided in this order: no error text and a size of at
\* most 10, EMPTY_TRACE; no error text, NO_OUTPUT; the stack overflow marker,
\* STACK_OVERFLOW; the missing symbol marker, PARSE_ERROR; the timeout marker,
\* TIMEOUT; otherwise OTHER.
C10_DecisionOrder ==
    c_cat # "" =>
       LET noText == c_error = None \/ c_error.len = 0
           Has(m) == ~noText /\ m \in c_error.marks
       IN  /\ noText /\ c_size <= 10 => c_cat = "EMPTY_TRACE"
           /\ noText /\ c_size > 10 => c_cat = "NO_OUTPUT"
           /\ Has("GOALS STACK OVERFLOW") => c_cat = "STACK_OVERFLOW"
           /\ ~Has("GOALS STACK OVERFLOW") /\ Has("missing atomic symbol") =>
                 c_cat = "PARSE_ERROR"
           /\ /\ ~Has("GOALS STACK OVERFLOW") /\ ~Has("missing atomic symbol")
              /\ Has("Timeout")
              => c_cat = "TIMEOUT"
           /\ ~noText /\ c_error.marks = {} => c_cat = "OTHER"

\* an error text with the three markers has been given its category
C10_Witness ==
    /\ c_cat = "STACK_OVERFLOW"
    /\ c_error # None /\ c_error.marks = Markers

-----------------------------------------------------------------------------
(* The batch, the classifier and the files of a pipeline *)

\* results[i] is the FileResult of but_files[i]
DirOf(i) == but_files[i][1]
NameOf(i) == results[i].filename[1]
WorkFile(i, ext) == <<DirOf(i), NameOf(i), ext>>

Ended == pc \in {"classify", "archive", "done", "aborted"}

\* C11: once main has left the loop over the inputs, by its end or by a
\* failure, there is one FileResult for each input of the batch.
C11_EveryFileHasResult ==
    Ended => Len(results) = Len(but_files)

\* PP succeeded, REPLAY did not, and the trace store has a trace under the name
Classified(i) ==
    /\ results[i].pp # None /\ results[i].pp.success
    /\ ~(results[i].replay # None /\ results[i].replay.success)
    /\ Exists(fs, <<"trace", NameOf(i), "trace">>)

RecordSlots ==
    UNION { {<<c, k>> : k \in 1..Len(failure_stats[c])} : c \in DOMAIN failure_stats }
RecordAt(slot) == failure_stats[slot[1]][slot[2]]

C13_ArchiveTriple ==
    pc = "done" =>
       \A i \in 1..Len(results) : Classified(i) =>
          LET n == NameOf(i)
              InArch(ext) == <<"replay-failures", n, ext>>
          IN  /\ Exists(fs, InArch("but"))
              /\ fs[InArch("but")] = fs[WorkFile(i, "but")]
              /\ Exists(fs, InArch("trace"))
              /\ fs[InArch("trace")] = fs[<<"trace", n, "trace">>]
              /\ Exists(fs, InArch("replay.goal"))
              /\ fs[InArch("replay.goal")].data =
                    <<FileOn(<<n, "replay.res">>), Str(<<n, "trace">>)>>

C15_RunnerNeverRaises ==
    /\ k_call # None /\ k_count = 0 => ENABLED Run
    /\ k_count = 1 =>
          LET b == k_call.b
              r == k_ret[1]
          IN  /\ b.kind = "timeout" =>
                    /\ r.timeout /\ ~r.success
                    /\ r.error.src = "Timeout after" /\ r.error.arg = k_call.timeout
                    /\ k_ret[2] = None
              /\ b.kind = "exception" =>
                    /\ ~r.timeout /\ ~r.success
                    /\ r.error = [b.exc EXCEPT !.len = Min(b.exc.len, 200)]
                    /\ k_ret[2] = None

\* a REPLAY call, which captures stdout, has ended on the timeout
C15_Witness ==
    /\ k_count = 1
    /\ k_call.b.kind = "timeout"
    /\ k_call.capture_stdout /\ k_call.timeout = ReplayTimeout
    /\ k_ret[1].timeout

\* C16: after an exit with a non-zero code the error returned is stdout,
\* stripped and cut to 200 characters, when stdout is not empty; otherwise
\* stderr, stripped and cut to 200 characters, when stderr is not empty;
\* otherwise None.  No error text returned is longer than 200 characters.
C16_ErrorTextSource ==
    k_count = 1 =>
       LET b == k_call.b
           r == k_ret[1]
           Cut(t) == [t EXCEPT !.len = Min(t.len - t.ws, 200), !.ws = 0]
       IN  /\ b.kind = "exit" /\ b.code # 0 =>
                 r.error = IF b.out.len > 0 THEN Cut(b.out)
                           ELSE IF b.err.len > 0 THEN Cut(b.err)
                           ELSE None
           /\ r.error # None => r.error.len <= 200

\* an exit with a non-zero code, a stdout of more than 200 characters and a
\* stderr that is not empty
C16_Witness ==
    /\ k_count = 1
    /\ k_call.b.kind = "exit" /\ k_call.b.code # 0
    /\ k_call.b.out.len - k_call.b.out.ws > 200 /\ k_call.b.err.len > 0
    /\ k_ret[1].error.src = "stdout" /\ k_ret[1].error.len = 200

\* C17: for every file returned with PP not succeeded: it has no REPLAY
\* outcome, no trace is left beside the input, and no file written for it is in
\* the trace store or is a replay goal.
C17_StopOnFailLeavesNothing ==
    \A i \in 1..Len(results) : ~results[i].pp.success =>
       /\ results[i].replay = None
       /\ ~Exists(fs, WorkFile(i, "trace"))
       /\ \A q \in DOMAIN fs : fs[q].by = i => q[1] # "trace" /\ q[3] # "replay.goal"

\* a file was returned after a PP killed at the timeout that had written a
\* part of its trace
C17_Witness ==
    \E i \in 1..Len(results) :
       /\ results[i].pp.timeout /\ ~results[i].pp.success
       /\ results[i].pp.output_size > 0
       /\ ~Exists(fs, WorkFile(i, "trace"))

\* C18: when PP has succeeded, the trace is in the trace store, and no longer
\* beside the input, before the replay goal exists; when REPLAY is about to
\* run and when it has run, the replay goal names the path of the trace in the
\* trace store and the trace written for this file is at that path.
C18_TraceMovedBeforeReplayGoal ==
    LET stored == <<"trace", stem, "trace">>
        Moved == /\ Exists(fs, stored) /\ fs[stored].by = idx
                 /\ ~Exists(fs, trace_file)
    IN  /\ pc = "stage1_validated" => ~Exists(fs, replay_goal_file)
        /\ pc = "trace_routed" => Moved /\ ~Exists(fs, replay_goal_file)
        /\ pc = "goal2_written" =>
              /\ Moved
              /\ Exists(fs, replay_goal_file)
              /\ fs[replay_goal_file].data = <<FileOn(<<stem, "replay.res">>), Str(stored)>>
        /\ pc = "stage2_run" => Moved

\* REPLAY is about to run for an input of a subdirectory
C18_Witness ==
    /\ pc = "goal2_written"
    /\ directory # SourceDir
    /\ Exists(fs, <<"trace", stem, "trace">>)

\* C19: the removal of the intermediate files can be done once REPLAY is
\* validated, also when REPLAY left no result flag file to delete; for every
\* file returned with a REPLAY outcome, the directory of the input holds no
\* .goal, .replay.goal, .replay.res, .replay or extensionless file of its
\* name, and if its PP left a result flag file (and with it the extensionless
\* file) the misc store has a file of that name.
C19_CleanedAfterReplay ==
    /\ pc = "stage2_validated" /\ ~Exists(fs, replay_res_file) => ENABLED Cleanup
    /\ \A i \in 1..Len(results) : results[i].replay # None =>
          LET d == but_files[i][1]
              n == results[i].filename[1]
          IN  /\ ~Exists(fs, <<d, n, "goal">>)
              /\ ~Exists(fs, <<d, n, "replay.goal">>)
              /\ ~Exists(fs, <<d, n, "replay.res">>)
              /\ ~Exists(fs, <<d, n, "replay">>)
              /\ ~Exists(fs, <<d, n, "">>)
              /\ Exists(fs, <<d, n, "res">>) /\ fs[<<d, n, "res">>].by = i =>
                    Exists(fs, <<"misc", n, "">>)

\* a file was returned after a REPLAY killed at the timeout, which left no
\* result flag file to delete, and its extensionless file is in the misc store
C19_Witness ==
    \E i \in 1..Len(results) :
       /\ results[i].replay # None /\ results[i].replay.timeout
       /\ Exists(fs, <<"misc", NameOf(i), "">>)
       /\ fs[<<"misc", NameOf(i), "">>].by = i

\* C20: for every file returned, with or without a REPLAY outcome, the .goal
\* file is gone, the input is there, and so is the result flag file if a result
\* was read from it; and no step removes a .but or .res file that is outside
\* the archive, or changes one, but for PP itself writing its result flag file.
C20_GoalDeletedInputKept ==
    /\ [](\A i \in 1..Len(results) :
             /\ ~Exists(fs, WorkFile(i, "goal"))
             /\ Exists(fs, WorkFile(i, "but"))
             /\ results[i].result # <<"UNKNOWN">> => Exists(fs, WorkFile(i, "res")))
    /\ [][\A q \in DOMAIN fs :
             q[3] \in {"but", "res"} /\ ~InArchive(q) =>
                /\ q \in DOMAIN fs'
                /\ fs'[q] = fs[q] \/ (pc = "goal1_written" /\ q = res_file)]_vars

\* the classifier has ended: it copied an input to the archive, and a file
\* whose PP failed has kept its result flag file
C20_Witness ==
    /\ pc = "done"
    /\ \E i, j \in 1..Len(results) :
          /\ ~results[i].pp.success /\ Exists(fs, WorkFile(i, "res"))
          /\ Classified(j) /\ Exists(fs, <<"replay-failures", NameOf(j), "but">>)

-----------------------------------------------------------------------------
(* The result label, the counts, the categories *)

DropLeadingBOM(s) == IF s # <<>> /\ Head(s) = "BOM" THEN Tail(s) ELSE s

\* C21: the label read from a result flag file with no byte-order-mark but
\* possibly a leading one is the content without that mark and without
\* surrounding whitespace.
C21_LabelTrimmedWithoutBOM ==
    l_count = 1 /\ (\A k \in 2..Len(l_text) : l_text[k] # "BOM") =>
       l_label = Strip(DropLeadingBOM(l_text))

\* C22: no step changes or removes a FileResult that is in results.files.
C22_ResultsNeverChange ==
    [][\A i \in 1..Len(results) : i <= Len(results') /\ results'[i] = results[i]]_vars

\* the classifier has ended after a batch of two files with a failure archived
C22_Witness ==
    /\ pc = "done"
    /\ Len(results) = 2
    /\ DOMAIN failure_stats # {}

Categories == {"EMPTY_TRACE", "NO_OUTPUT", "STACK_OVERFLOW", "PARSE_ERROR", "TIMEOUT", "OTHER"}

\* C23: while and after the classifier goes through the results, the list of
\* each category is, in the order of the results, the records (name and
\* error) of the classified failures seen whose error and trace size give that
\* category; a category without such a failure has no list.
C23_RecordsInProcessingOrder ==
    pc \in {"archive", "done"} =>
       LET Cat(i) == categorize_replay_error(results[i].replay.error,
                                             fs[<<"trace", NameOf(i), "trace">>].size)
       IN  /\ DOMAIN failure_stats \subseteq Categories
           /\ \A c \in Categories :
                 LET ord == SelectSeq([i \in 1..(idx - 1) |-> i],
                                      LAMBDA i : Classified(i) /\ Cat(i) = c)
                 IN  IF ord = <<>> THEN c \notin DOMAIN failure_stats
                     ELSE /\ c \in DOMAIN failure_stats
                          /\ Len(failure_stats[c]) = Len(ord)
                          /\ \A k \in 1..Len(ord) :
                                /\ failure_stats[c][k].name = NameOf(ord[k])
                                /\ failure_stats[c][k].error = results[ord[k]].replay.error

\* the classifier has ended with two failures of different names in one category
C23_Witness ==
    /\ pc = "done"
    /\ \E c \in DOMAIN failure_stats :
          /\ Len(failure_stats[c]) = 2
          /\ failure_stats[c][1].name # failure_stats[c][2].name

\* C24: the goal files are run in increasing order, one run for each up to
\* the current one; all_replays.txt holds, in that order, one section for each
\* run that exited with code 0 and none for the others; after a run with a
\* non-zero code the next goal file can be run; at the end every goal file has
\* been run.
C24_SectionsOfSuccessfulRuns ==
    g_pc \in {"loop", "done", "exit"} =>
       LET ok == SelectSeq(g_runs, LAMBDA r : r.code = 0)
       IN  /\ \A k \in 1..(Len(g_goals) - 1) : g_goals[k] < g_goals[k + 1]
           /\ Len(g_runs) <= Len(g_goals)
           /\ \A k \in 1..Len(g_runs) : g_runs[k].goal = g_goals[k]
           /\ Len(g_all) = Len(ok)
           /\ \A k \in 1..Len(ok) :
                 /\ g_all[k].header = <<ok[k].goal, "trace", "replay">>
                 /\ g_all[k].content = ok[k].out
           /\ g_pc = "loop" /\ Len(g_runs) < Len(g_goals) => ENABLED GenRun
           /\ g_pc = "done" => Len(g_runs) = Len(g_goals)

\* the loop has ended after a run with a non-zero code followed by a run
\* with code 0
C24_Witness ==
    /\ g_pc = "done"
    /\ \E k \in 1..(Len(g_runs) - 1) : g_runs[k].code # 0 /\ g_runs[k + 1].code = 0
    /\ Len(g_all) < Len(g_runs)

\* C25: between two files of the loop of main and after it, every FileResult
\* has a PP outcome, pp_succeeded + pp_failed is the number of files,
\* replay_succeeded + replay_failed is pp_succeeded, and for each stage the
\* number of timeouts is at most the number of failures.
C25_CountsAddUp ==
    pc \in {"start", "classify", "aborted"} =>
       /\ \A i \in 1..Len(results) : results[i].pp # None
       /\ pp_succeeded(results) + pp_failed(results) = total_files(results)
       /\ replay_succeeded(results) + replay_failed(results) = pp_succeeded(results)
       /\ pp_timeouts(results) <= pp_failed(results)
       /\ replay_timeouts(results) <= replay_failed(results)

\* two files have been processed: the PP of one timed out, the REPLAY of the
\* other failed
C25_Witness ==
    /\ pc = "classify"
    /\ Len(results) = 2
    /\ pp_timeouts(results) = 1
    /\ replay_failed(results) = 1

\* C26: in every FileResult returned, an outcome with success = true has no
\* error text.
C26_SuccessHasNoError ==
    \A i \in 1..Len(results) :
       /\ results[i].pp.success => results[i].pp.error = None
       /\ results[i].replay # None /\ results[i].replay.success =>
             results[i].replay.error = None

\* C27: when the classifier has ended, a classified failure whose REPLAY gave
\* no stdout and no error text to the runner has its record under NO_OUTPUT or
\* EMPTY_TRACE.
C27_SilentReplayIsNoOutput ==
    pc = "done" =>
       \A i \in 1..Len(results) :
          /\ Classified(i)
          /\ results[i].replay.error = NoReplayOutput
          /\ results[i].replay.output_size = 0
          => \E slot \in RecordSlots :
                /\ slot[1] \in {"NO_OUTPUT", "EMPTY_TRACE"}
                /\ RecordAt(slot).name = NameOf(i)

\* C28: while and after the classifier goes through the results, a classified
\* failure whose REPLAY timed out has the timeout text as error, there are as
\* many records with that error as such failures seen, and each of them is
\* under TIMEOUT.
C28_ReplayTimeoutIsTimeout ==
    pc \in {"archive", "done"} =>
       LET text == [src |-> "Timeout after", len |-> 20, ws |-> 0,
                    marks |-> {"Timeout"}, arg |-> 120]
           T == {i \in 1..(idx - 1) : Classified(i) /\ results[i].replay.timeout}
           R == {slot \in RecordSlots : RecordAt(slot).error = text}
       IN  /\ \A i \in T : results[i].replay.error = text
           /\ Cardinality(R) = Cardinality(T)
           /\ \A slot \in R : slot[1] = "TIMEOUT"

\* the classifier has ended with a record under TIMEOUT
C28_Witness ==
    /\ pc = "done"
    /\ "TIMEOUT" \in DOMAIN failure_stats
    /\ \E i \in 1..Len(results) : Classified(i) /\ results[i].replay.timeout

\* C29: the result of every FileResult returned is UNKNOWN unless the PP run
\* for this file has written the result flag file.
C29_LabelFromThisRun ==
    \A i \in 1..Len(results) :
       results[i].result # <<"UNKNOWN">> =>
          /\ Exists(fs, WorkFile(i, "res"))
          /\ fs[WorkFile(i, "res")].by = i

\* C30: in every FileResult returned, an outcome with success = false has an
\* error text that is not empty.
C30_FailureHasError ==
    \A i \in 1..Len(results) :
       /\ ~results[i].pp.success =>
             results[i].pp.error # None /\ results[i].pp.error.len > 0
       /\ results[i].replay # None /\ ~results[i].replay.success =>
             results[i].replay.error # None /\ results[i].replay.error.len > 0

====
